---- MODULE Spec2Model ----
(***************************************************************************)
(* Model of the gateway read test lambda (src/src/index.js, src/src/car.js) *)
(*                                                                         *)
(* One invocation of the handler `main` is followed from the S3 event to   *)
(* its return value or thrown error.  The handler is split at its awaits:  *)
(* getS3Object, carStat, inspectCarBlocks, the synchronous decision of     *)
(* main, getDirectoryStat and the gateway fetch.                           *)
(*                                                                         *)
(* A content identifier is modelled by its digest (a number); the codec    *)
(* tag, which the code reads as cid.code, is the field `code` of the block *)
(* that carries the identifier.  Identifiers bind content, so a link only  *)
(* points to a higher-numbered identifier (the DAG is acyclic) and two     *)
(* blocks with the same identifier have the same content.                  *)
(***************************************************************************)
EXTENDS Integers, Sequences, FiniteSets, TLC

\* ---- bounds of the model ------------------------------------------------
NumCids == 3          \* distinct content identifiers 1..NumCids
MaxRoots == 2         \* roots a CAR header declares, at most
MaxBlocks == 3        \* blocks of a container-level archive, at most
MaxListing == 2       \* objects returned by listObjectsV2, at most
SmallLen == 2         \* byte length of an ordinary block

\* ---- program constants --------------------------------------------------
MAX_BLOCK_SIZE == 1048576
MAX_SIZE_TO_ATTEMPT == 100 * 1024 * 1024

\* JavaScript `undefined` for the numeric fields Tsize and size
NoTsize == -1
NoSize == -1

pb == "dag-pb"
raw == "raw"
cbor == "dag-cbor"
otherCodec == "json"

decoders == <<pb, raw, cbor>>

Cids == 1..NumCids
Codecs == {pb, raw, cbor, otherCodec}

\* ---- inputs ---------------------------------------------------------------
\* Byte lengths of a block: ordinary, exactly at the limit, one past it.
ByteLens == {SmallLen, MAX_BLOCK_SIZE, MAX_BLOCK_SIZE + 1}

\* Declared Tsize of a dag-pb link: omitted, or large enough that one link
\* puts an ordinary root exactly at MAX_SIZE_TO_ATTEMPT and two put it above.
BigTsize == MAX_SIZE_TO_ATTEMPT - SmallLen
TsizeSet == {NoTsize, BigTsize}

\* Link lists of a node with digest below lo: ascending, distinct targets.
RECURSIVE LinkSeqs(_, _)
LinkSeqs(lo, T) ==
  IF lo > NumCids THEN {<<>>}
  ELSE LET rest == LinkSeqs(lo + 1, T)
       IN rest \cup {<<[Hash |-> lo, Tsize |-> t]>> \o r : t \in T, r \in rest}

MkBlock(d, c, n, ls) ==
  [cid |-> d, code |-> c, bytes |-> n, links |-> ls]

\* The contents a block with digest d can have: a dag-pb or dag-cbor node
\* with links (a dag-cbor link declares no size), a raw leaf, or a node of a
\* codec outside the three decoders.
NodesOf(d) ==
  {MkBlock(d, pb, SmallLen, ls) : ls \in LinkSeqs(d + 1, TsizeSet)}
    \cup {MkBlock(d, cbor, SmallLen, ls) : ls \in LinkSeqs(d + 1, {NoTsize})}
    \cup {MkBlock(d, c, SmallLen, <<>>) : c \in {raw, otherCodec}}

\* DAG-level archives: any subset of the identifiers, each with any content.
RECURSIVE DagArchives(_)
DagArchives(d) ==
  IF d > NumCids THEN {<<>>}
  ELSE LET rest == DagArchives(d + 1)
       IN rest \cup {<<b>> \o r : b \in NodesOf(d), r \in rest}

\* Container-level archives: raw leaves in any order, with repetitions, of
\* any of the byte lengths (the length is a function of the identifier).
CidSeqs == UNION {[1..k -> Cids] : k \in 0..MaxBlocks}

ContainerArchives ==
  {[i \in 1..Len(s) |-> MkBlock(s[i], raw, lenOf[s[i]], <<>>)] :
     s \in CidSeqs, lenOf \in [Cids -> ByteLens]}

\* Roots a header declares: the identifiers 1..k, for k = 0..MaxRoots.
RootLists ==
  {[i \in 1..k |-> ((i - 1) % NumCids) + 1] : k \in 0..MaxRoots}

SingleRoot == <<1>>

\* The bodies an object can have: any root list over a container-level
\* archive, or a single root over a DAG-level archive.
ContainerBodies ==
  {[roots |-> r, blocks |-> a] : r \in RootLists, a \in ContainerArchives}

DagBodies ==
  {[roots |-> SingleRoot, blocks |-> a] : a \in DagArchives(1)}

\* Metadata.structure of the S3 object
MetadataStructures == {"undefined", "Complete", "Partial"}

\* Sizes of the objects a listing reports
ListSizes == {1, MAX_SIZE_TO_ATTEMPT - 1}
Listings == UNION {[1..k -> ListSizes] : k \in 0..MaxListing}

\* ---- src/src/car.js -------------------------------------------------------
NoErr == "none"

\* decoders.find((d) => d.code === code): TRUE when a decoder is found
HasDecoder(code) == \E i \in 1..Len(decoders) : decoders[i] = code

\* Mutant: `roots.length > 2` in place of `roots.length > 1`.
carStat_allowsTwo(carBytes) ==
  IF Len(carBytes.roots) = 0 THEN [err |-> "missing roots", rootCid |-> 0]
  ELSE IF Len(carBytes.roots) > 2 THEN [err |-> "too many roots", rootCid |-> 0]
  ELSE [err |-> NoErr, rootCid |-> carBytes.roots[1]]

\* carStat: the number of roots of the header is checked.
carStat(carBytes) ==
  IF Len(carBytes.roots) = 0 THEN [err |-> "missing roots", rootCid |-> 0]
  ELSE IF Len(carBytes.roots) > 1 THEN [err |-> "too many roots", rootCid |-> 0]
  ELSE [err |-> NoErr, rootCid |-> carBytes.roots[1]]

\* blocks.find((b) => b.cid.equals(cid)): index of the first match, 0 if none
FindBlock(blocks, cid) ==
  IF \E i \in 1..Len(blocks) : blocks[i].cid = cid
  THEN CHOOSE i \in 1..Len(blocks) :
         blocks[i].cid = cid /\ \A j \in 1..(i - 1) : blocks[j].cid # cid
  ELSE 0

\* Mutant: `blockSize >= MAX_BLOCK_SIZE` in place of `blockSize > MAX_BLOCK_SIZE`.
FirstTooBig_inclusive(blocks) ==
  IF \E i \in 1..Len(blocks) : blocks[i].bytes >= MAX_BLOCK_SIZE
  THEN CHOOSE i \in 1..Len(blocks) :
         blocks[i].bytes >= MAX_BLOCK_SIZE
           /\ \A j \in 1..(i - 1) : ~(blocks[j].bytes >= MAX_BLOCK_SIZE)
  ELSE 0

\* Index of the first block the reading loop rejects as too big, 0 if none
FirstTooBig(blocks) ==
  IF \E i \in 1..Len(blocks) : blocks[i].bytes > MAX_BLOCK_SIZE
  THEN CHOOSE i \in 1..Len(blocks) :
         blocks[i].bytes > MAX_BLOCK_SIZE
           /\ \A j \in 1..(i - 1) : ~(blocks[j].bytes > MAX_BLOCK_SIZE)
  ELSE 0

\* pbNode.Links.reduce((acc, curr) => acc + (curr.Tsize || 0), 0)
RECURSIVE SumTsize(_, _)
SumTsize(Links, i) ==
  IF i > Len(Links) THEN 0
  ELSE (IF Links[i].Tsize = NoTsize \/ Links[i].Tsize = 0 THEN 0 ELSE Links[i].Tsize)
         + SumTsize(Links, i + 1)

\* Mutant: the byte length of the node itself is left out of the sum.
cumulativeSize_linksOnly(pbNodeBytes, pbNode) == SumTsize(pbNode.links, 1)

cumulativeSize(pbNodeBytes, pbNode) == pbNodeBytes + SumTsize(pbNode.links, 1)

\* iterateDag: "true" / "false", or the TypeError of calling decode on a
\* decoder that was not found (decoder is undefined).
TypeError == "TypeError: decoder is undefined"

RECURSIVE iterateDag(_, _)
RECURSIVE iterateLinks(_, _, _)

\* Mutant: a block without a decoder is taken for a leaf instead of failing.
iterateDag_skipsUnknown(rawBlock, blocks) ==
  IF ~HasDecoder(rawBlock.code) THEN "true"
  ELSE iterateLinks(rawBlock.links, 1, blocks)

\* Mutant: only the links of the block itself are looked up; the blocks
\* found are not walked.
iterateDag_shallow(rawBlock, blocks) ==
  IF ~HasDecoder(rawBlock.code) THEN TypeError
  ELSE IF \A k \in 1..Len(rawBlock.links) :
            \E i \in 1..Len(blocks) : blocks[i].cid = rawBlock.links[k].Hash
       THEN "true"
       ELSE "false"

iterateDag(rawBlock, blocks) ==
  IF ~HasDecoder(rawBlock.code) THEN TypeError
  ELSE iterateLinks(rawBlock.links, 1, blocks)

iterateLinks(bLinks, i, blocks) ==
  IF i > Len(bLinks) THEN "true"
  ELSE LET existingBlock == FindBlock(blocks, bLinks[i].Hash)
       IN IF existingBlock = 0 THEN "false"
          ELSE LET sub == iterateDag(blocks[existingBlock], blocks)
               IN IF sub # "true" THEN sub
                  ELSE iterateLinks(bLinks, i + 1, blocks)

\* The part of inspectCarBlocks after the root block is found
inspectRoot(rootCid, rawRootBlock, blocks) ==
  LET none == [err |-> NoErr, structure |-> "undefined", size |-> NoSize]
  IN IF ~HasDecoder(rawRootBlock.code) THEN none
     ELSE LET size == IF rawRootBlock.code = pb
                      THEN cumulativeSize(rawRootBlock.bytes, rawRootBlock)
                      ELSE NoSize
          IN IF Len(blocks) = 1 /\ rawRootBlock.code = raw
             THEN [err |-> NoErr, structure |-> "Complete", size |-> size]
             ELSE LET isComplete == iterateDag(rawRootBlock, blocks)
                  IN IF isComplete = "true"
                     THEN [err |-> NoErr, structure |-> "Complete", size |-> size]
                     ELSE IF isComplete = "false"
                     THEN [err |-> NoErr, structure |-> "Partial", size |-> size]
                     ELSE [none EXCEPT !.err = isComplete]

\* Mutant: the check `if (!blocks.length)` is missing.
inspectCarBlocks_noEmptyCheck(rootCid, blocks) ==
  LET big == FirstTooBig(blocks)
      rawRootBlock == FindBlock(blocks, rootCid)
      fail(e, n) == [err |-> e, structure |-> "undefined", size |-> NoSize, read |-> n]
  IN IF big # 0 THEN fail("block too big", big)
     ELSE IF rawRootBlock = 0 THEN fail("missing root block", Len(blocks))
     ELSE LET r == inspectRoot(rootCid, blocks[rawRootBlock], blocks)
          IN [err |-> r.err, structure |-> r.structure, size |-> r.size,
              read |-> Len(blocks)]

\* inspectCarBlocks: the reading loop, the two checks after it, the walk.
\* `read` is the number of blocks the loop has taken from the iterator.
inspectCarBlocks(rootCid, blocks) ==
  LET big == FirstTooBig(blocks)
      rawRootBlock == FindBlock(blocks, rootCid)
      fail(e, n) == [err |-> e, structure |-> "undefined", size |-> NoSize, read |-> n]
  IN IF big # 0 THEN fail("block too big", big)
     ELSE IF Len(blocks) = 0 THEN fail("empty CAR", 0)
     ELSE IF rawRootBlock = 0 THEN fail("missing root block", Len(blocks))
     ELSE LET r == inspectRoot(rootCid, blocks[rawRootBlock], blocks)
          IN [err |-> r.err, structure |-> r.structure, size |-> r.size,
              read |-> Len(blocks)]

\* ---- src/src/index.js -----------------------------------------------------
VARIABLES
  pc,          \* position of the handler: the call it awaits, or its outcome
  body,        \* s3Object.Body, the CAR bytes
  metadata,    \* s3Object.Metadata.structure
  rootCid,     \* stat.rootCid (0 before carStat has returned)
  read,        \* number of blocks taken from the block iterator
  inspection,  \* what inspectCarBlocks returned: [structure, size]
  structure,   \* structure returned by inspectCar
  size,        \* size returned by inspectCar
  accumSize,   \* accumSize returned by getDirectoryStat
  listed,      \* listObjectsV2 requests issued
  fetched,     \* gateway requests issued
  response,    \* the gateway response
  err          \* the error the handler throws

vars == <<pc, body, metadata, rootCid, read, inspection, structure, size,
          accumSize, listed, fetched, response, err>>

NoBody == [roots |-> <<>>, blocks |-> <<>>]
NoInspection == [structure |-> "undefined", size |-> NoSize]

Init ==
  /\ pc = "getS3Object"
  /\ body = NoBody
  /\ metadata = "undefined"
  /\ rootCid = 0
  /\ read = 0
  /\ inspection = NoInspection
  /\ structure = "undefined"
  /\ size = NoSize
  /\ accumSize = NoSize
  /\ listed = 0
  /\ fetched = 0
  /\ response = "undefined"
  /\ err = NoErr

\* s3Object.Contents.reduce((acc, obj) => acc + obj.Size, 0)
RECURSIVE SumSizes(_, _)
SumSizes(Contents, i) ==
  IF i > Len(Contents) THEN 0 ELSE Contents[i] + SumSizes(Contents, i + 1)

\* Mutant: `metadata.structure || inspection.structure`.
StructureOf_metadataFirst(inspected, meta) ==
  IF meta # "undefined" THEN meta ELSE inspected

\* inspection.structure || metadata.structure
StructureOf(inspected, meta) ==
  IF inspected # "undefined" THEN inspected ELSE meta

\* Mutant: the size checks are made whatever the structure is.
mainAfterInspectCar_ignoresStructure(struct, sz) ==
  IF sz = NoSize \/ sz = 0 THEN "returned"
  ELSE IF sz > MAX_SIZE_TO_ATTEMPT THEN "returned"
  ELSE "getDirectoryStat"

\* Mutant: a missing size is not checked for (`!size` dropped).
mainAfterInspectCar_noSizeCheck(struct, sz) ==
  IF struct # "Complete"
  THEN IF sz > MAX_SIZE_TO_ATTEMPT THEN "returned"
       ELSE "getDirectoryStat"
  ELSE "fetch"

\* Mutant: a size above the ceiling is thrown as an error instead of
\* being returned.
mainAfterInspectCar_throwsTooLarge(struct, sz) ==
  IF struct # "Complete"
  THEN IF sz = NoSize \/ sz = 0 THEN "returned"
       ELSE IF sz > MAX_SIZE_TO_ATTEMPT THEN "thrown"
       ELSE "getDirectoryStat"
  ELSE "fetch"

\* main, from the return of inspectCar to its next await or return
mainAfterInspectCar(struct, sz) ==
  IF struct # "Complete"
  THEN IF sz = NoSize \/ sz = 0 THEN "returned"
       ELSE IF sz > MAX_SIZE_TO_ATTEMPT THEN "returned"
       ELSE "getDirectoryStat"
  ELSE "fetch"

\* Mutant: `size >= accumSize` in place of `size > accumSize`.
mainAfterDirectoryStat_strict(sz, accum) ==
  IF sz >= accum THEN "returned" ELSE "fetch"

\* main, from the return of getDirectoryStat to its next await or return
mainAfterDirectoryStat(sz, accum) ==
  IF sz > accum THEN "returned" ELSE "fetch"

\* getS3Object: the object is returned, or the request fails.
GetS3Object ==
  /\ pc = "getS3Object"
  /\ \/ /\ \/ \E b \in ContainerBodies : body' = b
           \/ \E b \in DagBodies : body' = b
        /\ \E m \in MetadataStructures : metadata' = m
        /\ pc' = "inspectCar"
        /\ err' = err
     \/ /\ pc' = "thrown"
        /\ err' = "getObject failed"
        /\ UNCHANGED <<body, metadata>>
  /\ UNCHANGED <<rootCid, read, inspection, structure, size, accumSize,
                 listed, fetched, response>>

\* inspectCar: carStat, then inspectCarBlocks, then the structure is chosen
\* and inspectCar returns to main; an error of either call is rethrown.
InspectCar ==
  /\ pc = "inspectCar"
  /\ LET stat == carStat(body)
     IN IF stat.err # NoErr
        THEN /\ pc' = "thrown"
             /\ err' = stat.err
             /\ UNCHANGED <<rootCid, read, inspection, structure, size>>
        ELSE LET r == inspectCarBlocks(stat.rootCid, body.blocks)
             IN /\ rootCid' = stat.rootCid
                /\ read' = r.read
                /\ IF r.err # NoErr
                   THEN /\ pc' = "thrown"
                        /\ err' = r.err
                        /\ UNCHANGED <<inspection, structure, size>>
                   ELSE /\ pc' = "main"
                        /\ err' = err
                        /\ inspection' = [structure |-> r.structure, size |-> r.size]
                        /\ structure' = StructureOf(r.structure, metadata)
                        /\ size' = r.size
  /\ UNCHANGED <<body, metadata, accumSize, listed, fetched, response>>

\* main after inspectCar: returns without a request, lists the directory,
\* or goes on to the gateway.
Main ==
  /\ pc = "main"
  /\ pc' = mainAfterInspectCar(structure, size)
  /\ UNCHANGED <<body, metadata, rootCid, read, inspection, structure, size,
                 accumSize, listed, fetched, response, err>>

\* getDirectoryStat and the comparison that follows it in main
GetDirectoryStat ==
  /\ pc = "getDirectoryStat"
  /\ listed' = listed + 1
  /\ \/ \E Contents \in Listings :
          /\ accumSize' = SumSizes(Contents, 1)
          /\ pc' = mainAfterDirectoryStat(size, accumSize')
          /\ err' = err
     \/ /\ pc' = "thrown"
        /\ err' = "listObjectsV2 failed"
        /\ accumSize' = accumSize
  /\ UNCHANGED <<body, metadata, rootCid, read, inspection, structure, size,
                 fetched, response>>

\* The gateway request: an ok response, a response that is not ok, or a
\* request that fails (the 25 s abort included).
Fetch ==
  /\ pc = "fetch"
  /\ fetched' = fetched + 1
  /\ \/ /\ response' = "ok"
        /\ pc' = "returned"
        /\ err' = err
     \/ /\ response' = "not ok"
        /\ pc' = "thrown"
        /\ err' = "Failed to fetch file from gateway"
     \/ /\ response' = response
        /\ pc' = "thrown"
        /\ err' = "fetch failed"
  /\ UNCHANGED <<body, metadata, rootCid, read, inspection, structure, size,
                 accumSize, listed>>

Next ==
  \/ GetS3Object
  \/ InspectCar
  \/ Main
  \/ GetDirectoryStat
  \/ Fetch

Spec == Init /\ [][Next]_vars

\* ---- properties -----------------------------------------------------------
\* inspectCar has returned a value to main
Inspected ==
  pc \in {"main", "getDirectoryStat", "fetch", "returned"} \/ listed > 0 \/ fetched > 0

\* main has left the decision behind: it returned, went on to the gateway,
\* or failed in a request
Decided == Inspected /\ pc \notin {"main", "getDirectoryStat"}

\* The decision Attempt: main goes on to the gateway request
Attempt == pc = "fetch" \/ fetched > 0

\* The decision Defer: main returns { rootCid, structure } without a request
\* to the gateway
Defer == pc = "returned" /\ fetched = 0 /\ response = "undefined"

\* C1: whenever the structure obtained for the archive is Complete, main goes
\* on to the gateway fetch, whatever the size is, and lists no directory.
C1_CompleteAttempts ==
  (Inspected /\ pc # "main" /\ structure = "Complete")
    => (Attempt /\ listed = 0 /\ accumSize = NoSize)

\* C1 witness: a Complete archive whose size is above the ceiling was fetched.
C1_Witness ==
  /\ structure = "Complete"
  /\ size > MAX_SIZE_TO_ATTEMPT
  /\ fetched = 1

\* C2: for a Partial structure with a size, the decision is Attempt exactly
\* when size <= MAX_SIZE_TO_ATTEMPT and accumSize >= size, and Defer in every
\* other case; above the ceiling it is Defer without the directory being
\* listed at all, so for every accumulated size.
C2_PartialDecision ==
  (Decided /\ structure = "Partial" /\ size # NoSize /\ err # "listObjectsV2 failed")
    => /\ Attempt <=> (size <= MAX_SIZE_TO_ATTEMPT /\ listed = 1 /\ accumSize >= size)
       /\ ~Attempt => Defer
       /\ size > MAX_SIZE_TO_ATTEMPT => (Defer /\ listed = 0)
       /\ size <= MAX_SIZE_TO_ATTEMPT => listed = 1

\* C2 witness: size equal to the ceiling and accumulated size equal to the
\* size, and the gateway was requested.
C2_Witness ==
  /\ structure = "Partial"
  /\ size = MAX_SIZE_TO_ATTEMPT
  /\ accumSize = size
  /\ fetched = 1

\* C3: a Partial structure without a size is deferred, and the directory is
\* not listed.
C3_PartialNoSizeDefers ==
  (Inspected /\ pc # "main" /\ structure = "Partial" /\ size = NoSize)
    => (Defer /\ listed = 0)

\* C3 witness: the walker found a dag-cbor root Partial and main returned.
C3_Witness ==
  /\ inspection.structure = "Partial"
  /\ size = NoSize
  /\ pc = "returned"

\* inspectCar has run on the object that getS3Object returned
Parsed == pc \notin {"getS3Object", "inspectCar"} /\ err # "getObject failed"

\* Identifiers of the blocks of an archive
Present(blocks) == {blocks[i].cid : i \in 1..Len(blocks)}

\* Identifiers the blocks with an identifier in S link to
Targets(blocks, S) ==
  UNION {{blocks[i].links[k].Hash : k \in 1..Len(blocks[i].links)} :
           i \in {j \in 1..Len(blocks) : blocks[j].cid \in S}}

\* Identifiers reachable from those of S by following links, in n rounds
RECURSIVE ReachFrom(_, _, _)
ReachFrom(blocks, S, n) ==
  IF n = 0 THEN S ELSE ReachFrom(blocks, S \cup Targets(blocks, S), n - 1)

Reachable(blocks, root) == ReachFrom(blocks, {root}, NumCids)

HasTooBig == \E i \in 1..Len(body.blocks) : body.blocks[i].bytes > MAX_BLOCK_SIZE

AllSupported == \A i \in 1..Len(body.blocks) : HasDecoder(body.blocks[i].code)

\* C4: for an archive with one root, whose root block is present and whose
\* blocks all have a supported codec (and none is too big), inspectCarBlocks
\* returns Complete exactly when every identifier reachable from the root is
\* the identifier of a block of the archive, and Partial exactly when one is
\* missing.
C4_VerdictIsReachability ==
  (/\ Parsed
   /\ Len(body.roots) = 1
   /\ body.roots[1] \in Present(body.blocks)
   /\ ~HasTooBig
   /\ AllSupported)
    => /\ Inspected
       /\ inspection.structure = "Complete"
            <=> Reachable(body.blocks, body.roots[1]) \subseteq Present(body.blocks)
       /\ inspection.structure = "Partial"
            <=> ~(Reachable(body.blocks, body.roots[1]) \subseteq Present(body.blocks))

\* C4 witness: every link of the root block is present, a block further down
\* is missing, and the verdict is Partial.
C4_Witness ==
  /\ Inspected
  /\ AllSupported
  /\ inspection.structure = "Partial"
  /\ Targets(body.blocks, {rootCid}) # {}
  /\ Targets(body.blocks, {rootCid}) \subseteq Present(body.blocks)

\* C5: a header with no root fails with 'missing roots', one with more than
\* one root with 'too many roots', in both cases before a block is read; a
\* root identifier is only ever obtained from a header with exactly one root.
C5_RootCount ==
  Parsed
    => /\ Len(body.roots) = 0
            => (pc = "thrown" /\ err = "missing roots" /\ read = 0 /\ rootCid = 0)
       /\ Len(body.roots) > 1
            => (pc = "thrown" /\ err = "too many roots" /\ read = 0 /\ rootCid = 0)
       /\ Len(body.roots) = 1
            => (err \notin {"missing roots", "too many roots"} /\ rootCid = body.roots[1])

\* C5 witness: two roots over an archive that has blocks, one of them too
\* big: the failure is the root count and no block was read.
C5_Witness ==
  /\ err = "too many roots"
  /\ HasTooBig
  /\ read = 0

\* C6 as claimed: whenever a block of the archive is longer than
\* MAX_BLOCK_SIZE the failure is 'block too big'.
C6_Original ==
  (Parsed /\ HasTooBig) => err = "block too big"

\* C6 as amended: for an archive whose header declares exactly one root, the
\* failure is 'block too big' exactly when some block, at any position, is
\* longer than MAX_BLOCK_SIZE, and then nothing is returned by the
\* inspection; with any header, the failure is never 'block too big' when
\* every block is MAX_BLOCK_SIZE bytes or shorter.
C6_BlockTooBig ==
  Parsed
    => /\ err = "block too big" => HasTooBig
       /\ (Len(body.roots) = 1 /\ HasTooBig)
            => /\ err = "block too big"
               /\ pc = "thrown"
               /\ inspection = NoInspection
               /\ structure = "undefined"
               /\ size = NoSize

\* C6 witness: the block too big is neither the first nor the root block,
\* and a block of exactly MAX_BLOCK_SIZE bytes was read before it.
C6_Witness ==
  /\ err = "block too big"
  /\ read > 1
  /\ body.blocks[read].cid # body.roots[1]
  /\ \E i \in 1..(read - 1) : body.blocks[i].bytes = MAX_BLOCK_SIZE

\* The archive has one root, its root block, and no block too big: the
\* reading loop of inspectCarBlocks and the checks after it pass
RootFound ==
  /\ Parsed
  /\ Len(body.roots) = 1
  /\ body.roots[1] \in Present(body.blocks)
  /\ ~HasTooBig

\* Codec of the root identifier (read from the root block, which carries it)
RootCode == body.blocks[FindBlock(body.blocks, body.roots[1])].code

\* A block with an unsupported codec is reachable from the root
UnsupportedReachable ==
  \E i \in 1..Len(body.blocks) :
    /\ body.blocks[i].cid \in Reachable(body.blocks, body.roots[1])
    /\ ~HasDecoder(body.blocks[i].code)

\* C7 as claimed: when the root or a block linked from it has a codec that
\* is none of raw, dag-pb, dag-cbor, the inspection fails and returns no
\* verdict.
C7_Original ==
  (RootFound /\ UnsupportedReachable)
    => (pc = "thrown" /\ err = TypeError /\ inspection = NoInspection)

\* C7 as amended: a root of an unsupported codec raises nothing, the
\* inspection returns neither structure nor size and the metadata structure
\* is used; a linked block of an unsupported codec makes the walk fail, with
\* no verdict, no listing and no gateway request, whenever the root's codec is
\* supported and no identifier reachable from the root is missing; and the
\* failure is raised for no other archive.
C7_UnsupportedCodec ==
  /\ (RootFound /\ ~HasDecoder(RootCode))
       => /\ Inspected
          /\ err # TypeError
          /\ inspection = NoInspection
          /\ structure = metadata
  /\ (/\ RootFound
      /\ HasDecoder(RootCode)
      /\ UnsupportedReachable
      /\ Reachable(body.blocks, body.roots[1]) \subseteq Present(body.blocks))
       => /\ pc = "thrown"
          /\ err = TypeError
          /\ inspection = NoInspection
          /\ structure = "undefined"
          /\ listed = 0
          /\ fetched = 0
  /\ err = TypeError
       => (RootFound /\ HasDecoder(RootCode) /\ UnsupportedReachable)

\* C7 witness: the walk failed on a block that the root does not link to
\* itself (a descendant further down).
C7_Witness ==
  /\ err = TypeError
  /\ \A i \in 1..Len(body.blocks) :
       body.blocks[i].cid \in Targets(body.blocks, {rootCid})
         => HasDecoder(body.blocks[i].code)

\* Sum of the declared sizes of the first n links, 0 for a link without one
RECURSIVE SumDeclared(_, _)
SumDeclared(links, n) ==
  IF n = 0 THEN 0
  ELSE SumDeclared(links, n - 1)
         + (IF links[n].Tsize = NoTsize THEN 0 ELSE links[n].Tsize)

\* C8: for a dag-pb root the size is the byte length of the root block plus
\* the declared sizes of its links, 0 for a link that declares none: a value
\* fixed by the root block alone, whatever other blocks the archive holds and
\* whatever the verdict is; for any other root there is no size.
C8_SizeFromRoot ==
  Inspected
    => LET rootBlock == body.blocks[FindBlock(body.blocks, body.roots[1])]
       IN IF rootBlock.code = pb
          THEN size = rootBlock.bytes + SumDeclared(rootBlock.links, Len(rootBlock.links))
          ELSE size = NoSize

\* C8 witness: a Partial dag-pb archive whose root has a link with a declared
\* size and a link without one.
C8_Witness ==
  /\ Inspected
  /\ inspection.structure = "Partial"
  /\ RootCode = pb
  /\ size = SmallLen + BigTsize
  /\ LET rootBlock == body.blocks[FindBlock(body.blocks, body.roots[1])]
     IN \E k \in 1..Len(rootBlock.links) : rootBlock.links[k].Tsize = NoTsize

InspectionErrors ==
  {"missing roots", "too many roots", "block too big", "empty CAR",
   "missing root block", TypeError}

\* C10: an archive with one root and no block fails with 'empty CAR', one
\* whose blocks (none too big) do not include the root with 'missing root
\* block'; and whenever inspectCar fails the handler throws the error, no
\* structure or size is returned, and neither the directory listing nor the
\* gateway is requested.
C10_FailFast ==
  Parsed
    => /\ (Len(body.roots) = 1 /\ Len(body.blocks) = 0) => err = "empty CAR"
       /\ (/\ Len(body.roots) = 1
           /\ Len(body.blocks) > 0
           /\ ~HasTooBig
           /\ body.roots[1] \notin Present(body.blocks))
            => err = "missing root block"
       /\ err \in InspectionErrors
            => /\ pc = "thrown"
               /\ inspection = NoInspection
               /\ structure = "undefined"
               /\ size = NoSize
               /\ accumSize = NoSize
               /\ listed = 0
               /\ fetched = 0
               /\ response = "undefined"
       /\ ~Inspected => err \in InspectionErrors

\* C10 witness: an archive with blocks, none of them the root, has failed.
C10_Witness ==
  /\ err = "missing root block"
  /\ pc = "thrown"
  /\ read > 1

\* C11: for every invocation whose object metadata has structure 'Complete'
\* and whose CAR is inspected without error, main goes on to the gateway
\* fetch (a failed directory listing apart).
C11_MetadataCompleteAttempts ==
  (Decided /\ metadata = "Complete" /\ err # "listObjectsV2 failed")
    => Attempt

\* The conditions under which main defers: the structure is not Complete
\* and there is no size, or the size is above the ceiling, or the directory
\* was listed and holds less than the size
DeferCase ==
  /\ Inspected
  /\ pc # "main"
  /\ structure # "Complete"
  /\ \/ size = NoSize
     \/ size > MAX_SIZE_TO_ATTEMPT
     \/ listed = 1 /\ accumSize # NoSize /\ size > accumSize

RequestErrors ==
  {"getObject failed", "listObjectsV2 failed",
   "Failed to fetch file from gateway", "fetch failed"}

\* C12: in each case of deferral main returns normally, with the root
\* identifier and the structure, without a gateway response, an error or a
\* gateway request, and it returns without a request in no other case; an
\* error is thrown only by a failed inspection, a failed S3 request, or a
\* gateway request that fails or whose response is not ok.
C12_DeferIsNotAnError ==
  /\ DeferCase
       => /\ pc = "returned"
          /\ err = NoErr
          /\ fetched = 0
          /\ response = "undefined"
          /\ rootCid = body.roots[1]
  /\ (pc = "returned" /\ fetched = 0) => DeferCase
  /\ pc = "thrown" <=> err # NoErr
  /\ err # NoErr => err \in InspectionErrors \cup RequestErrors
  /\ err = "listObjectsV2 failed" => (listed = 1 /\ fetched = 0)
  /\ err = "Failed to fetch file from gateway" => (fetched = 1 /\ response = "not ok")
  /\ err = "fetch failed" => (fetched = 1 /\ response = "undefined")

\* C12 witness: the directory was listed, holds less than the size, and main
\* returned the Partial structure without an error or a gateway request.
C12_Witness ==
  /\ pc = "returned"
  /\ structure = "Partial"
  /\ listed = 1
  /\ accumSize # NoSize
  /\ size > accumSize
  /\ fetched = 0
  /\ response = "undefined"
  /\ err = NoErr

====
